---- MODULE Spec2Model ----
(***************************************************************************)
(* A model of the pyparse parser-combinator library                        *)
(* (src/misc/pyparse/pyparse.py, src/misc/pyparse/parsers.py).             *)
(*                                                                         *)
(* Python objects are modelled with their identity where it matters:       *)
(* every list (a state's `errors`, a list-valued `result`, the local       *)
(* `results` accumulators of the combinators) is an object of `heap`, and  *)
(* a ParserState holds references to them.  A ParserState itself is a      *)
(* frozen dataclass, so its own fields are a value (a record).             *)
(*                                                                         *)
(* A text is a sequence of one-character strings.  An error message is a   *)
(* sequence of strings whose concatenation is the Python message.          *)
(***************************************************************************)
EXTENDS Integers, Sequences, FiniteSets, TLC

\* ------------------------------------------------------------------ bounds

\* Longest generated target text.
MaxLen == 3

\* A `while True` that does not stop is followed until its results are this
\* many more than twice the characters of the target.
MaxRepeat == 2

\* ------------------------------------------------------- Python constants

\* Python's None, where an int is expected (index, furthest_index, counter).
None == -1

\* Python's None, where a list reference is expected.
NoRef == 0

\* No exception is propagating.
NoExc == "none"

\* len(to_match) + 10: the preview length of string's error message.
PreviewExtra == 10

\* [:10] and > 10: the preview length of the error messages.
PreviewLen == 10

\* ------------------------------------------------------------ sequences

Min(a, b) == IF a < b THEN a ELSE b

\* Python's seq[start:]
SliceFrom(seq, start) == SubSeq(seq, Min(start, Len(seq)) + 1, Len(seq))

\* Python's seq[:stop]
SliceTo(seq, stop) == SubSeq(seq, 1, Min(stop, Len(seq)))

\* Python's str.startswith
startswith(text, prefix) ==
    /\ Len(prefix) <= Len(text)
    /\ SubSeq(text, 1, Len(prefix)) = prefix

\* ---------------------------------------------------------------- values

\* The values a result takes: None, a str, a list (by reference), and the
\* provider `lambda: None` that optional passes to update.
PyNone == [tag |-> "none", str |-> <<>>, ref |-> NoRef]

PyStr(text) == [tag |-> "str", str |-> text, ref |-> NoRef]

PyList(ref) == [tag |-> "list", str |-> <<>>, ref |-> ref]

ProvideNone == [tag |-> "provider", str |-> <<>>, ref |-> NoRef]

\* isinstance(maybe_iterable, Sequence) and not isinstance(maybe_iterable, str)
is_iterable(maybe_iterable) == maybe_iterable.tag = "list"

\* The value a reference-holding value stands for: lists by content.
RECURSIVE Deep(_, _)
Deep(h, value) ==
    IF value.tag = "list"
    THEN [tag |-> "list", str |-> <<>>,
          items |-> [i \in 1..Len(h[value.ref]) |-> Deep(h, h[value.ref][i])]]
    ELSE [tag |-> value.tag, str |-> value.str, items |-> <<>>]

\* ------------------------------------------------------------ ParserState

\* ParserState(target=target, traverse=traverse): the other fields default,
\* errors to a fresh list (default_factory=list) held at `errors`.
ParserState(target, traverse, errors) ==
    [target |-> target, traverse |-> traverse, index |-> 0, furthest_index |-> 0,
     result |-> PyNone, is_error |-> FALSE, errors |-> errors]

\* The observable fields of a state, lists by content.
View(h, s) ==
    [target |-> s.target, traverse |-> s.traverse, index |-> s.index,
     furthest_index |-> s.furthest_index, result |-> Deep(h, s.result),
     is_error |-> s.is_error, errors |-> h[s.errors]]

\* ------------------------------------------------------ execution context

\* The operations below take the execution context ctx, a record of the
\* program's variables (see VARIABLES), and give back the context they leave
\* and the ParserState they return.
Ret(ctx, st) == [ctx |-> ctx, st |-> st]

Raise(ctx, st, exception) == [ctx |-> [ctx EXCEPT !.exc = exception], st |-> st]

\* A fresh list object; its reference is NewRef(ctx).
NewRef(ctx) == Len(ctx.heap) + 1

Alloc(ctx, items) == [ctx EXCEPT !.heap = Append(@, items)]

\* list.append
ListAppend(ctx, ref, item) == [ctx EXCEPT !.heap[ref] = Append(@, item)]

Produced(ctx, st) ==
    [ctx EXCEPT !.produced = Append(@, [st |-> st, view |-> View(ctx.heap, st)])]

\* ParserState.update as it would be without the `if index >
\* furthest_index` that raises the furthest index to the index: C23 tells it
\* from update.
update_taking_furthest_index_as_passed(ctx, self, index, furthest_index, result, is_error, errors) ==
    LET args_furthest == IF furthest_index # None THEN furthest_index
                         ELSE self.furthest_index
        t_idx == IF index # None THEN index ELSE self.index
        furthest == args_furthest
        updated == [target |-> self.target,
                    traverse |-> self.traverse,
                    index |-> t_idx,
                    furthest_index |-> furthest,
                    result |-> IF result.tag = "provider" THEN PyNone
                               ELSE IF result.tag = "none" THEN self.result
                               ELSE result,
                    is_error |-> IF is_error = "None" THEN self.is_error
                                 ELSE is_error = "True",
                    errors |-> IF errors = NoRef THEN self.errors ELSE errors]
    IN  IF ctx.total_transformations = None
        THEN Raise(ctx, self, "TypeError")
        ELSE Ret([Produced(ctx, updated) EXCEPT !.total_transformations = @ + 1],
                 updated)

\* ParserState.update.  A parameter left out is None (for is_error "None",
\* for errors NoRef, for result PyNone); target and traverse are never
\* passed by the library.  The new object exists before the counter is
\* incremented, and the increment raises TypeError while the counter is
\* None.
update(ctx, self, index, furthest_index, result, is_error, errors) ==
    LET args_furthest == IF furthest_index # None THEN furthest_index
                         ELSE self.furthest_index
        t_idx == IF index # None THEN index ELSE self.index
        furthest == IF t_idx > args_furthest THEN t_idx ELSE args_furthest
        updated == [target |-> self.target,
                    traverse |-> self.traverse,
                    index |-> t_idx,
                    furthest_index |-> furthest,
                    result |-> IF result.tag = "provider" THEN PyNone
                               ELSE IF result.tag = "none" THEN self.result
                               ELSE result,
                    is_error |-> IF is_error = "None" THEN self.is_error
                                 ELSE is_error = "True",
                    errors |-> IF errors = NoRef THEN self.errors ELSE errors]
    IN  IF ctx.total_transformations = None
        THEN Raise(ctx, self, "TypeError")
        ELSE Ret([Produced(ctx, updated) EXCEPT !.total_transformations = @ + 1],
                 updated)

get_target_segment(self, start_index) ==
    SliceFrom(self.target, IF start_index # None THEN start_index ELSE self.index)

\* has_chars_remaining as it would be if it asked for more than num_chars
\* characters: C17 tells it from has_chars_remaining.
has_chars_remaining_and_more(self, num_chars, start_index) ==
    Len(get_target_segment(self, start_index)) > num_chars

has_chars_remaining(self, num_chars, start_index) ==
    Len(get_target_segment(self, start_index)) >= num_chars

is_remaining_target_empty(self, start_index) ==
    ~has_chars_remaining(self, 1, start_index)

is_incomplete_match(self) == self.index < Len(self.target)

update_result_and_index(ctx, self, new_result, next_index, furthest_index) ==
    update(ctx, self, next_index, furthest_index, new_result, "None", NoRef)

\* update_result_offset_index as it would be if it took the offset from the
\* end of the target rather than from the index: C25 tells it from
\* update_result_offset_index.
update_result_offset_index_from_end(ctx, self, new_result, offset, furthest_index) ==
    update_result_and_index(ctx, self, new_result, Len(self.target) + offset,
                            furthest_index)

update_result_offset_index(ctx, self, new_result, offset, furthest_index) ==
    update_result_and_index(ctx, self, new_result, self.index + offset, furthest_index)

update_result_shift_length(ctx, self, new_result, furthest_index) ==
    update_result_offset_index(ctx, self, PyStr(new_result), Len(new_result),
                               furthest_index)

\* [message] + self.errors is a new list.
\* add_error as it would be if it inserted the message into the errors list
\* of `self` and handed the same list on: C1 tells it from add_error.
add_error_in_place(ctx, self, message, index) ==
    update([ctx EXCEPT !.heap[self.errors] = <<message>> \o @], self,
           None, index, PyNone, "True", self.errors)

add_error(ctx, self, message, index) ==
    update(Alloc(ctx, <<message>> \o ctx.heap[self.errors]), self,
           None, index, PyNone, "True", NewRef(ctx))

add_errors(ctx, self, messages, index) ==
    update(Alloc(ctx, messages \o ctx.heap[self.errors]), self,
           None, index, PyNone, "True", NewRef(ctx))

error_target_empty(ctx, self, parser_name) ==
    add_error(ctx, self, <<parser_name, ": ", "reached EOF">>, None)

\* assign_errors as it would be if it labelled the newest message only: C8
\* tells it from assign_errors.
assign_errors_newest_only(ctx, self, parser_name) ==
    update(Alloc(ctx, [i \in 1..Len(ctx.heap[self.errors]) |->
                          IF i = 1 THEN <<parser_name, ": ">> \o ctx.heap[self.errors][i]
                          ELSE ctx.heap[self.errors][i]]),
           self, None, None, PyNone, "None", NewRef(ctx))

assign_errors(ctx, self, parser_name) ==
    update(Alloc(ctx, [i \in 1..Len(ctx.heap[self.errors]) |->
                          <<parser_name, ": ">> \o ctx.heap[self.errors][i]]),
           self, None, None, PyNone, "None", NewRef(ctx))

\* ---------------------------------------------------------------- PyParse

\* A PyParse object, by the constructor that built its state_transformer and
\* the values its closure holds.
NoPattern == [pattern |-> <<>>, alternatives |-> <<>>, repeat |-> FALSE]

PyParse(kind, to_match, pattern, parsers, minimum_number, provider, transformer) ==
    [kind |-> kind, to_match |-> to_match, pattern |-> pattern, parsers |-> parsers,
     minimum_number |-> minimum_number, provider |-> provider,
     result_transformer |-> transformer]

\* string(to_match) for a str
string(to_match) == PyParse("string", to_match, NoPattern, <<>>, 0, "", "")

\* regex(t_pattern): re.compile('^' + t_pattern).  The patterns of the
\* library and its clients are an alternation of literals, tried in
\* declaration order, matched once or (with +) repeatedly.
regex(t_pattern, alternatives, repeat) ==
    PyParse("regex", <<>>,
            [pattern |-> <<"^">> \o t_pattern, alternatives |-> alternatives,
             repeat |-> repeat],
            <<>>, 0, "", "")

\* string(to_match) for a tuple: regex('(' + ')|('.join(escaped) + ')')
RECURSIVE join(_, _)
join(joiner, texts) ==
    IF Len(texts) = 0 THEN <<>>
    ELSE IF Len(texts) = 1 THEN texts[1]
    ELSE texts[1] \o joiner \o join(joiner, Tail(texts))

\* re.escape: a backslash before every special character.
SpecialChars == {"(", ")", "[", "]", "{", "}", "?", "*", "+", "-", "|", "^", "$",
                 "\\", ".", "&", "~", "#", " "}

RECURSIVE escape(_)
escape(text) ==
    IF Len(text) = 0 THEN <<>>
    ELSE (IF text[1] \in SpecialChars THEN <<"\\", text[1]>> ELSE <<text[1]>>)
         \o escape(Tail(text))

string_tuple(to_match) ==
    regex(<<"(">>
          \o join(<<")|(">>, [i \in 1..Len(to_match) |-> escape(to_match[i])])
          \o <<")">>,
          to_match, FALSE)

optional(parser) == PyParse("optional", <<>>, NoPattern, <<parser>>, 0, "", "")

sequence_of(parsers) == PyParse("sequence_of", <<>>, NoPattern, parsers, 0, "", "")

any_of(parsers) == PyParse("any_of", <<>>, NoPattern, parsers, 0, "", "")

many(parser, minimum_number) ==
    PyParse("many", <<>>, NoPattern, <<parser>>, minimum_number, "", "")

seperated_by(seperator, target) ==
    PyParse("seperated_by", <<>>, NoPattern, <<seperator, target>>, 0, "", "")

lazy(provider) == PyParse("lazy", <<>>, NoPattern, <<>>, 0, provider, "")

map(self, result_transformer) ==
    PyParse("map", <<>>, NoPattern, <<self>>, 0, "", result_transformer)

\* PyParse.between with both delimiters given; `right` omitted is left.
between(self, left, right) == map(sequence_of(<<left, self, right>>), "between")

Digits == <<<<"0">>, <<"1">>, <<"2">>, <<"3">>, <<"4">>, <<"5">>, <<"6">>, <<"7">>,
           <<"8">>, <<"9">>>>

DIGITS == regex(<<"[0-9]+">>, Digits, TRUE)

\* -------------------------------------------------------------- re.match

\* The first alternative, in declaration order, that the segment starts
\* with; 0 when there is none.
RECURSIVE first_alternative(_, _, _)
first_alternative(alternatives, segment, i) ==
    IF i > Len(alternatives) THEN 0
    ELSE IF startswith(segment, alternatives[i]) THEN i
    ELSE first_alternative(alternatives, segment, i + 1)

\* The length matched by greedy repetition from `matched` on.
RECURSIVE match_repeat(_, _, _)
match_repeat(alternatives, segment, matched) ==
    LET a == first_alternative(alternatives, SliceFrom(segment, matched), 1)
    IN  IF a = 0 \/ Len(alternatives[a]) = 0 THEN matched
        ELSE match_repeat(alternatives, segment, matched + Len(alternatives[a]))

\* pattern.match(segment): the length of match.group(0), or None.
match(pattern, segment) ==
    LET a == first_alternative(pattern.alternatives, segment, 1)
    IN  IF a = 0 THEN None
        ELSE IF pattern.repeat
        THEN match_repeat(pattern.alternatives, segment, Len(pattern.alternatives[a]))
        ELSE Len(pattern.alternatives[a])

\* ------------------------------------------------------ result transformers

\* mapping.singleton_list_unpacker and the lambda of PyParse.between, applied
\* to a result; x[1] raises IndexError on a list shorter than two.
result_transformer(ctx, name, x) ==
    IF name = "singleton_list_unpacker"
    THEN Ret(ctx, IF is_iterable(x) /\ Len(ctx.heap[x.ref]) = 1
                  THEN ctx.heap[x.ref][1] ELSE x)
    ELSE IF is_iterable(x)
    THEN IF Len(ctx.heap[x.ref]) >= 2 THEN Ret(ctx, ctx.heap[x.ref][2])
         ELSE Raise(ctx, x, "IndexError")
    ELSE Ret(ctx, x)

\* ------------------------------------------------- the equation grammar

operation ==
    string_tuple(<<<<"*">>, <<"/">>, <<"+">>, <<"-">>, <<"%">>, <<"^">>>>)

numerical_constant ==
    regex(<<"([0-9]|e|pi)+">>, Digits \o <<<<"e">>, <<"p", "i">>>>, TRUE)

\* __parenthesis as it would be without its map: C19 tells it from
\* parenthesis.
parenthesis_in_list == many(lazy("statement"), 1)

parenthesis == map(many(lazy("statement"), 1), "singleton_list_unpacker")

expression ==
    any_of(<<parenthesis,
             map(sequence_of(<<numerical_constant, optional(parenthesis)>>),
                 "singleton_list_unpacker")>>)

statement == seperated_by(operation, expression)

\* The providers handed to lazy, by name: the lambda of __parenthesis, and
\* one that supplies a plain literal.
provider(name) ==
    IF name = "statement"
    THEN between(statement, string(<<"(">>), string(<<")">>))
    ELSE string(<<"a">>)

\* -------------------------------------------------------------- call stack

\* The frame of one application parser.state_transformer(state): its
\* position pc, the locals of the transformer, the state `child` that the
\* application it made last returned, and its entry `call` in the log.  An
\* entry of the log tells whether the application called a result
\* transformer.
Frame(parser, st, call) ==
    [parser |-> parser, state |-> st, pc |-> "start", results |-> NoRef,
     current |-> st, index |-> 0, furthest_of_all |-> 0, seperator_state |-> st,
     child |-> st, call |-> call]

Top(ctx) == ctx.stack[Len(ctx.stack)]

\* The running application applies `parser` to `st`; it resumes as `frame`.
Call(ctx, frame, parser, st) ==
    [ctx EXCEPT !.stack = SubSeq(@, 1, Len(@) - 1)
                          \o <<frame, Frame(parser, st, Len(ctx.calls) + 1)>>,
                !.calls = Append(@, [parser |-> parser, in |-> st, out |-> st,
                                     returned |-> FALSE, parent |-> frame.call,
                                     transformed |-> FALSE])]

\* The running application returns `st`, to the application that made it
\* or, from the outermost one, to the client.
Return(ctx, st) ==
    LET rest == SubSeq(ctx.stack, 1, Len(ctx.stack) - 1)
    IN  [ctx EXCEPT !.calls[Top(ctx).call].out = st,
                    !.calls[Top(ctx).call].returned = TRUE,
                    !.stack = IF Len(rest) = 0 THEN rest
                              ELSE [rest EXCEPT ![Len(rest)].child = st],
                    !.state = IF Len(rest) = 0 THEN st ELSE @]

\* The running application returns what a ParserState operation gave, unless
\* the operation raised: no transformer catches, so every application ends.
Finish(r) ==
    IF r.ctx.exc # NoExc THEN [r.ctx EXCEPT !.stack = <<>>]
    ELSE Return(r.ctx, r.st)

\* ------------------------------------------------------------ combinators

\* Each transformer is given as what it does from its position pc up to the
\* next application it makes or to its return.

\* The number of leading characters of `prefix` that `text` starts with.
RECURSIVE matching_prefix(_, _)
matching_prefix(text, prefix) ==
    IF Len(text) = 0 \/ Len(prefix) = 0 \/ Head(text) # Head(prefix) THEN 0
    ELSE 1 + matching_prefix(Tail(text), Tail(prefix))

\* The loop of find_string_transformer as it would be if a literal that
\* fails recorded how far it matched in furthest_index: C4 tells it from
\* find_string_loop.
RECURSIVE find_string_loop_recording_prefix(_, _, _, _)
find_string_loop_recording_prefix(ctx, to_match, state, c_idx) ==
    IF is_remaining_target_empty(state, c_idx)
    THEN error_target_empty(ctx, state, "string")
    ELSE LET current == get_target_segment(state, c_idx)
         IN  IF startswith(current, to_match)
             THEN update_result_and_index(ctx, state, PyStr(to_match),
                                          c_idx + Len(to_match), None)
             ELSE IF state.traverse
                     /\ has_chars_remaining(state, Len(to_match), c_idx + 1)
             THEN find_string_loop_recording_prefix(ctx, to_match, state, c_idx + 1)
             ELSE add_error(ctx, state,
                      <<"string: Expected '">> \o to_match \o <<"', found '">>
                      \o (IF state.traverse THEN get_target_segment(state, None)
                          ELSE SliceTo(current, Len(to_match) + PreviewExtra))
                      \o (IF Len(get_target_segment(state, None)) > PreviewLen
                          THEN <<"...">> ELSE <<>>)
                      \o <<"'">>,
                      IF state.furthest_index > c_idx + matching_prefix(current, to_match)
                      THEN state.furthest_index
                      ELSE c_idx + matching_prefix(current, to_match))

\* find_string_transformer: the body of its `while True`, at c_idx.
RECURSIVE find_string_loop(_, _, _, _)
find_string_loop(ctx, to_match, state, c_idx) ==
    IF is_remaining_target_empty(state, c_idx)
    THEN error_target_empty(ctx, state, "string")
    ELSE LET current == get_target_segment(state, c_idx)
         IN  IF startswith(current, to_match)
             THEN update_result_and_index(ctx, state, PyStr(to_match),
                                          c_idx + Len(to_match), None)
             ELSE IF state.traverse
                     /\ has_chars_remaining(state, Len(to_match), c_idx + 1)
             THEN find_string_loop(ctx, to_match, state, c_idx + 1)
             ELSE add_error(ctx, state,
                      <<"string: Expected '">> \o to_match \o <<"', found '">>
                      \o (IF state.traverse THEN get_target_segment(state, None)
                          ELSE SliceTo(current, Len(to_match) + PreviewExtra))
                      \o (IF Len(get_target_segment(state, None)) > PreviewLen
                          THEN <<"...">> ELSE <<>>)
                      \o <<"'">>,
                      None)

find_string_transformer(ctx, f) ==
    IF f.state.is_error THEN Return(ctx, f.state)
    ELSE Finish(find_string_loop(ctx, f.parser.to_match, f.state, f.state.index))

find_regex_transformer(ctx, f) ==
    LET state == f.state
        pattern == f.parser.pattern
        matched == match(pattern, get_target_segment(state, None))
    IN  IF state.is_error THEN Return(ctx, state)
        ELSE IF is_remaining_target_empty(state, None)
        THEN Finish(error_target_empty(ctx, state, "regex"))
        ELSE IF matched = None
        THEN Finish(add_error(ctx, state,
                 <<"regex: Expected '">> \o pattern.pattern \o <<"', found '">>
                 \o SliceTo(get_target_segment(state, None), PreviewLen)
                 \o (IF Len(get_target_segment(state, None)) > PreviewLen
                     THEN <<"...">> ELSE <<>>)
                 \o <<"'">>,
                 None))
        ELSE Finish(update_result_shift_length(ctx, state,
                 SliceTo(get_target_segment(state, None), matched), None))

\* optional_parser_transformer as it would be if, the attempt failing, it
\* returned the incoming state as it is: C11 tells it from
\* optional_parser_transformer.
optional_parser_transformer_returning_state(ctx, f) ==
    IF f.pc = "start"
    THEN IF f.state.is_error THEN Return(ctx, f.state)
         ELSE Call(ctx, [f EXCEPT !.pc = "temp_state"], f.parser.parsers[1], f.state)
    ELSE LET temp_state == f.child
         IN  IF temp_state.is_error THEN Return(ctx, f.state)
             ELSE Return(ctx, temp_state)

\* optional_parser_transformer as it would be if, after a failed child, it
\* cleared the error flag of the child's state rather than going back to the
\* incoming state: C24 tells it from optional_parser_transformer.
optional_parser_transformer_clearing_flag(ctx, f) ==
    IF f.pc = "start"
    THEN IF f.state.is_error THEN Return(ctx, f.state)
         ELSE Call(ctx, [f EXCEPT !.pc = "temp_state"], f.parser.parsers[1], f.state)
    ELSE LET temp_state == f.child
         IN  IF temp_state.is_error
             THEN Finish(update(ctx, temp_state, f.state.index, None, ProvideNone,
                                "False", NoRef))
             ELSE Return(ctx, temp_state)

optional_parser_transformer(ctx, f) ==
    IF f.pc = "start"
    THEN IF f.state.is_error THEN Return(ctx, f.state)
         ELSE Call(ctx, [f EXCEPT !.pc = "temp_state"], f.parser.parsers[1], f.state)
    ELSE LET temp_state == f.child
         IN  IF temp_state.is_error
             THEN Finish(update_result_and_index(ctx, f.state, ProvideNone, None,
                                                 temp_state.furthest_index))
             ELSE Return(ctx, temp_state)

\* The `for` of parser_sequence_transformer as it would be if every parser
\* were applied to the incoming state: C12 tells it from parser_sequence_for.
parser_sequence_for_restarting(ctx, f) ==
    LET parsers == f.parser.parsers
    IN  IF f.index < Len(parsers)
        THEN Call(ctx, [f EXCEPT !.pc = "current", !.index = @ + 1],
                  parsers[f.index + 1], f.state)
        ELSE IF Len(ctx.heap[f.results]) = 0
        THEN Finish(add_error(ctx, f.state, <<"sequence: parsers matched nothing!">>,
                              f.current.furthest_index))
        ELSE Finish(update_result_and_index(
                 Alloc(ctx, SelectSeq(ctx.heap[f.results], LAMBDA r : r.tag # "none")),
                 f.current, PyList(NewRef(ctx)), None, None))

\* parser_sequence_transformer from the top of its `for`, before the
\* parser at f.index + 1; after the last one, the code after the loop.
parser_sequence_for(ctx, f) ==
    LET parsers == f.parser.parsers
    IN  IF f.index < Len(parsers)
        THEN Call(ctx, [f EXCEPT !.pc = "current", !.index = @ + 1],
                  parsers[f.index + 1], f.current)
        ELSE IF Len(ctx.heap[f.results]) = 0
        THEN Finish(add_error(ctx, f.state, <<"sequence: parsers matched nothing!">>,
                              f.current.furthest_index))
        ELSE Finish(update_result_and_index(
                 Alloc(ctx, SelectSeq(ctx.heap[f.results], LAMBDA r : r.tag # "none")),
                 f.current, PyList(NewRef(ctx)), None, None))

\* parser_sequence_transformer as it would be if a failing sequence went
\* back to the incoming state: C27 tells it from parser_sequence_transformer.
parser_sequence_transformer_rolling_back(ctx, f) ==
    IF f.pc = "start"
    THEN IF f.state.is_error THEN Return(ctx, f.state)
         ELSE parser_sequence_for(Alloc(ctx, <<>>),
                                  [f EXCEPT !.results = NewRef(ctx), !.current = f.state])
    ELSE LET current == f.child
         IN  IF current.is_error
             THEN Finish(add_error(ctx, f.state,
                                   <<"sequence: component failed to match">>,
                                   current.furthest_index))
             ELSE parser_sequence_for(ListAppend(ctx, f.results, current.result),
                                      [f EXCEPT !.current = current])

parser_sequence_transformer(ctx, f) ==
    IF f.pc = "start"
    THEN IF f.state.is_error THEN Return(ctx, f.state)
         ELSE parser_sequence_for(Alloc(ctx, <<>>),
                                  [f EXCEPT !.results = NewRef(ctx), !.current = f.state])
    ELSE LET current == f.child
         IN  IF current.is_error
             THEN Finish(add_error(ctx, current,
                                   <<"sequence: component failed to match">>, None))
             ELSE parser_sequence_for(ListAppend(ctx, f.results, current.result),
                                      [f EXCEPT !.current = current])

\* The `for` of any_parser_transformer as it would be if each alternative
\* were applied to the state the alternative before it returned: C10 tells
\* it from any_parser_for.
any_parser_for_moving(ctx, f) ==
    IF f.index < Len(f.parser.parsers)
    THEN Call(ctx, [f EXCEPT !.pc = "temp_state", !.index = @ + 1],
              f.parser.parsers[f.index + 1], f.child)
    ELSE Finish(add_error(ctx, f.state, <<"any_of: no target matched!">>,
                          f.furthest_of_all))

\* any_parser_transformer from the top of its `for`, before the parser at
\* f.index + 1; after the last one, the code after the loop.
any_parser_for(ctx, f) ==
    IF f.index < Len(f.parser.parsers)
    THEN Call(ctx, [f EXCEPT !.pc = "temp_state", !.index = @ + 1],
              f.parser.parsers[f.index + 1], f.state)
    ELSE Finish(add_error(ctx, f.state, <<"any_of: no target matched!">>,
                          f.furthest_of_all))

any_parser_transformer(ctx, f) ==
    IF f.pc = "start"
    THEN IF f.state.is_error THEN Return(ctx, f.state)
         ELSE any_parser_for(ctx, [f EXCEPT !.furthest_of_all = 0])
    ELSE LET temp_state == f.child
             furthest_of_all == IF f.furthest_of_all < temp_state.furthest_index
                                THEN temp_state.furthest_index
                                ELSE f.furthest_of_all
         IN  IF ~temp_state.is_error THEN Return(ctx, temp_state)
             ELSE any_parser_for(ctx, [f EXCEPT !.furthest_of_all = furthest_of_all])

\* many_transformer as it would be if it built its error on the last
\* successful state: C6 tells it from many_transformer.
many_transformer_failing_from_current(ctx, f) ==
    IF f.pc = "start"
    THEN IF f.state.is_error THEN Return(ctx, f.state)
         ELSE Call(Alloc(ctx, <<>>),
                   [f EXCEPT !.pc = "temp_state", !.results = NewRef(ctx),
                             !.current = f.state],
                   f.parser.parsers[1], f.state)
    ELSE LET temp_state == f.child
             results == ctx.heap[f.results]
             minimum_number == f.parser.minimum_number
         IN  IF temp_state.is_error
             THEN IF Len(results) < minimum_number
                  THEN Finish(add_error(ctx, f.current,
                           <<"many: ", ToString(Len(results)), " matches, ",
                             ToString(minimum_number), " required!">>,
                           f.current.furthest_index))
                  ELSE Finish(update_result_and_index(ctx, f.current, PyList(f.results),
                                                      None, f.current.furthest_index))
             ELSE Call(ListAppend(ctx, f.results, temp_state.result),
                       [f EXCEPT !.current = temp_state],
                       f.parser.parsers[1], temp_state)

\* many_transformer as it would be if it asked for no minimum: C20 tells it
\* from many_transformer.
many_transformer_without_minimum(ctx, f) ==
    IF f.pc = "start"
    THEN IF f.state.is_error THEN Return(ctx, f.state)
         ELSE Call(Alloc(ctx, <<>>),
                   [f EXCEPT !.pc = "temp_state", !.results = NewRef(ctx),
                             !.current = f.state],
                   f.parser.parsers[1], f.state)
    ELSE LET temp_state == f.child
         IN  IF temp_state.is_error
             THEN Finish(update_result_and_index(ctx, f.current, PyList(f.results),
                                                 None, f.current.furthest_index))
             ELSE Call(ListAppend(ctx, f.results, temp_state.result),
                       [f EXCEPT !.current = temp_state],
                       f.parser.parsers[1], temp_state)

\* many_transformer as it would be if `results` were a list kept on the
\* combinator rather than made by each application: an application goes on
\* with the list an earlier application of the combinator returned.  C21
\* tells it from many_transformer.
many_transformer_keeping_results(ctx, f) ==
    LET earlier == {i \in 1..Len(ctx.calls) :
                        /\ ctx.calls[i].parser = f.parser
                        /\ ctx.calls[i].returned
                        /\ ~ctx.calls[i].out.is_error
                        /\ ctx.calls[i].out.result.tag = "list"}
        first == CHOOSE i \in earlier : \A j \in earlier : i <= j
    IN  IF f.pc = "start"
        THEN IF f.state.is_error THEN Return(ctx, f.state)
             ELSE IF earlier # {}
             THEN Call(ctx,
                       [f EXCEPT !.pc = "temp_state",
                                 !.results = ctx.calls[first].out.result.ref,
                                 !.current = f.state],
                       f.parser.parsers[1], f.state)
             ELSE Call(Alloc(ctx, <<>>),
                       [f EXCEPT !.pc = "temp_state", !.results = NewRef(ctx),
                                 !.current = f.state],
                       f.parser.parsers[1], f.state)
        ELSE LET temp_state == f.child
                 results == ctx.heap[f.results]
                 minimum_number == f.parser.minimum_number
             IN  IF temp_state.is_error
                 THEN IF Len(results) < minimum_number
                      THEN Finish(add_error(ctx, f.state,
                               <<"many: ", ToString(Len(results)), " matches, ",
                                 ToString(minimum_number), " required!">>,
                               f.current.furthest_index))
                      ELSE Finish(update_result_and_index(ctx, f.current,
                                      PyList(f.results), None,
                                      f.current.furthest_index))
                 ELSE Call(ListAppend(ctx, f.results, temp_state.result),
                           [f EXCEPT !.current = temp_state],
                           f.parser.parsers[1], temp_state)

\* many_transformer as it would be if every round applied the parser to the
\* incoming state rather than to the state the round before returned: C26
\* tells it from many_transformer.
many_transformer_restarting(ctx, f) ==
    IF f.pc = "start"
    THEN IF f.state.is_error THEN Return(ctx, f.state)
         ELSE Call(Alloc(ctx, <<>>),
                   [f EXCEPT !.pc = "temp_state", !.results = NewRef(ctx),
                             !.current = f.state],
                   f.parser.parsers[1], f.state)
    ELSE LET temp_state == f.child
             results == ctx.heap[f.results]
             minimum_number == f.parser.minimum_number
         IN  IF temp_state.is_error
             THEN IF Len(results) < minimum_number
                  THEN Finish(add_error(ctx, f.state,
                           <<"many: ", ToString(Len(results)), " matches, ",
                             ToString(minimum_number), " required!">>,
                           f.current.furthest_index))
                  ELSE Finish(update_result_and_index(ctx, f.current, PyList(f.results),
                                                      None, f.current.furthest_index))
             ELSE Call(ListAppend(ctx, f.results, temp_state.result),
                       [f EXCEPT !.current = temp_state],
                       f.parser.parsers[1], f.state)

many_transformer(ctx, f) ==
    IF f.pc = "start"
    THEN IF f.state.is_error THEN Return(ctx, f.state)
         ELSE Call(Alloc(ctx, <<>>),
                   [f EXCEPT !.pc = "temp_state", !.results = NewRef(ctx),
                             !.current = f.state],
                   f.parser.parsers[1], f.state)
    ELSE LET temp_state == f.child
             results == ctx.heap[f.results]
             minimum_number == f.parser.minimum_number
         IN  IF temp_state.is_error
             THEN IF Len(results) < minimum_number
                  THEN Finish(add_error(ctx, f.state,
                           <<"many: ", ToString(Len(results)), " matches, ",
                             ToString(minimum_number), " required!">>,
                           f.current.furthest_index))
                  ELSE Finish(update_result_and_index(ctx, f.current, PyList(f.results),
                                                      None, f.current.furthest_index))
             ELSE Call(ListAppend(ctx, f.results, temp_state.result),
                       [f EXCEPT !.current = temp_state],
                       f.parser.parsers[1], temp_state)

\* The `while True` of seperated_by_transformer as it would be if it looked
\* for the end of the target before it appended the item: C9 tells it from
\* seperated_by_while.
seperated_by_while_appending_late(ctx, f) ==
    LET appended == ListAppend(ctx, f.results, f.current.result)
    IN  IF is_remaining_target_empty(f.current, None)
        THEN Finish(update_result_and_index(ctx, f.current, PyList(f.results),
                                            None, None))
        ELSE Call(appended, [f EXCEPT !.pc = "seperator_state"],
                  f.parser.parsers[1], f.current)

\* seperated_by_transformer from the top of its `while True`.
seperated_by_while(ctx, f) ==
    LET appended == ListAppend(ctx, f.results, f.current.result)
    IN  IF is_remaining_target_empty(f.current, None)
        THEN Finish(update_result_and_index(appended, f.current, PyList(f.results),
                                            None, None))
        ELSE Call(appended, [f EXCEPT !.pc = "seperator_state"],
                  f.parser.parsers[1], f.current)

\* seperated_by_transformer as it would be if, the next item failing, it
\* returned from the state after the separator: C7 tells it from
\* seperated_by_transformer.
seperated_by_transformer_keeping_seperator(ctx, f) ==
    LET target == f.parser.parsers[2]
    IN  CASE f.pc = "start" ->
                 IF f.state.is_error THEN Return(ctx, f.state)
                 ELSE Call(Alloc(ctx, <<>>),
                           [f EXCEPT !.pc = "current_state", !.results = NewRef(ctx)],
                           target, f.state)
          [] f.pc = "current_state" ->
                 IF f.child.is_error
                 THEN Finish(assign_errors(ctx, f.child, "seperated_by"))
                 ELSE seperated_by_while(ctx, [f EXCEPT !.current = f.child])
          [] f.pc = "seperator_state" ->
                 IF f.child.is_error \/ is_remaining_target_empty(f.child, None)
                 THEN Finish(update_result_and_index(ctx, f.current, PyList(f.results),
                                                     None, f.child.furthest_index))
                 ELSE Call(ctx, [f EXCEPT !.pc = "next_state",
                                          !.seperator_state = f.child],
                           target, f.child)
          [] f.pc = "next_state" ->
                 IF f.child.is_error
                 THEN Finish(update_result_and_index(ctx, f.seperator_state,
                                                     PyList(f.results),
                                                     None, f.child.furthest_index))
                 ELSE seperated_by_while(
                          ListAppend(ctx, f.results, f.seperator_state.result),
                          [f EXCEPT !.current = f.child])

seperated_by_transformer(ctx, f) ==
    LET target == f.parser.parsers[2]
    IN  CASE f.pc = "start" ->
                 IF f.state.is_error THEN Return(ctx, f.state)
                 ELSE Call(Alloc(ctx, <<>>),
                           [f EXCEPT !.pc = "current_state", !.results = NewRef(ctx)],
                           target, f.state)
          [] f.pc = "current_state" ->
                 IF f.child.is_error
                 THEN Finish(assign_errors(ctx, f.child, "seperated_by"))
                 ELSE seperated_by_while(ctx, [f EXCEPT !.current = f.child])
          [] f.pc = "seperator_state" ->
                 IF f.child.is_error \/ is_remaining_target_empty(f.child, None)
                 THEN Finish(update_result_and_index(ctx, f.current, PyList(f.results),
                                                     None, f.child.furthest_index))
                 ELSE Call(ctx, [f EXCEPT !.pc = "next_state",
                                          !.seperator_state = f.child],
                           target, f.child)
          [] f.pc = "next_state" ->
                 IF f.child.is_error
                 THEN Finish(update_result_and_index(ctx, f.current, PyList(f.results),
                                                     None, f.child.furthest_index))
                 ELSE seperated_by_while(
                          ListAppend(ctx, f.results, f.seperator_state.result),
                          [f EXCEPT !.current = f.child])

lazy_transformer(ctx, f) ==
    IF f.pc = "start"
    THEN IF f.state.is_error THEN Return(ctx, f.state)
         ELSE Call(ctx, [f EXCEPT !.pc = "return"], provider(f.parser.provider), f.state)
    ELSE Return(ctx, f.child)

map_transformer(ctx, f) ==
    IF f.pc = "start"
    THEN Call(ctx, [f EXCEPT !.pc = "new_state"], f.parser.parsers[1], f.state)
    ELSE LET new_state == f.child
             called == [ctx EXCEPT !.calls[f.call].transformed = TRUE]
             mapped_result ==
                 result_transformer(called, f.parser.result_transformer, new_state.result)
         IN  IF new_state.is_error THEN Return(ctx, new_state)
             ELSE IF mapped_result.ctx.exc # NoExc THEN Finish(mapped_result)
             ELSE Finish(update(called, new_state, None, None, mapped_result.st,
                                "None", NoRef))

\* --------------------------------------------------- pretest_do_math.py

\* The values of pretest_do_math.py: an int, a str, None, and an exception
\* that left the function.
Number(n) == [tag |-> "int", int |-> n, str |-> <<>>]

Text(text) == [tag |-> "str", int |-> 0, str |-> text]

NoValue == [tag |-> "none", int |-> 0, str |-> <<>>]

Raised(exception) == [tag |-> "raise", int |-> 0, str |-> <<exception>>]

\* The decimal digits, each at its value plus one.
DecimalDigits == <<"0", "1", "2", "3", "4", "5", "6", "7", "8", "9">>

IsDigit(symbol) == \E d \in 1..Len(DecimalDigits) : DecimalDigits[d] = symbol

DigitValue(symbol) == (CHOOSE d \in 1..Len(DecimalDigits) : DecimalDigits[d] = symbol) - 1

\* The number that a text of digits writes in base ten.
RECURSIVE Decimal(_)
Decimal(digits) ==
    IF Len(digits) = 0 THEN 0
    ELSE Len(DecimalDigits) * Decimal(SubSeq(digits, 1, Len(digits) - 1))
         + DigitValue(digits[Len(digits)])

\* Python's int(x) on the values the program passes it: an int as it is, a
\* str of digits as the number it writes, ValueError on any other str,
\* TypeError on None.
int(x) ==
    IF x.tag = "int" THEN x
    ELSE IF x.tag = "str"
    THEN IF Len(x.str) > 0 /\ \A k \in 1..Len(x.str) : IsDigit(x.str[k])
         THEN Number(Decimal(x.str))
         ELSE Raised("ValueError")
    ELSE Raised("TypeError")

parenthesis_value(symbol) ==
    IF symbol = "(" THEN 1
    ELSE IF symbol = ")" THEN -1
    ELSE 0

\* Python's abs
abs(n) == IF n < 0 THEN 0 - n ELSE n

\* Python's list[index], where a negative index counts from the end.
Item(list, index) ==
    list[IF index < 0 THEN Len(list) + index + 1 ELSE index + 1]

\* Python's list.pop(index) as it leaves the list.
Pop(list, index) ==
    LET at == IF index < 0 THEN Len(list) + index + 1 ELSE index + 1
    IN  SubSeq(list, 1, at - 1) \o SubSeq(list, at + 1, Len(list))

\* execute: `for index in reversed(multiply)`, with the indexes still to be
\* processed; it gives the list it leaves, or the exception it raised.
RECURSIVE execute_multiply(_, _)
execute_multiply(preprocessed, multiply) ==
    IF Len(multiply) = 0 THEN [exc |-> NoExc, list |-> preprocessed]
    ELSE LET index == multiply[Len(multiply)]
             val_one == int(Item(preprocessed, index - 1))
             val_two == int(Item(preprocessed, index + 1))
             replaced == [preprocessed EXCEPT
                              ![index + 1] = Number(val_one.int * val_two.int)]
         IN  IF val_one.tag = "raise"
             THEN [exc |-> val_one.str[1], list |-> preprocessed]
             ELSE IF index + 1 >= Len(preprocessed)
             THEN [exc |-> "IndexError", list |-> preprocessed]
             ELSE IF val_two.tag = "raise"
             THEN [exc |-> val_two.str[1], list |-> preprocessed]
             ELSE execute_multiply(Pop(Pop(replaced, index + 1), index - 1),
                                   SubSeq(multiply, 1, Len(multiply) - 1))

\* execute: the last loop, which adds up what int() converts and passes
\* over what it does not.
RECURSIVE execute_add(_)
execute_add(preprocessed) ==
    IF Len(preprocessed) = 0 THEN 0
    ELSE LET component == int(Head(preprocessed))
         IN  (IF component.tag = "int" THEN component.int ELSE 0)
             + execute_add(Tail(preprocessed))

\* execute.  No component is a list, and type(component) == 'list' compares
\* a type with a str: preprocessed is a copy of components.
execute(components) ==
    LET preprocessed == components
        indexes == SelectSeq([k \in 1..Len(preprocessed) |-> k - 1],
                             LAMBDA index : Item(preprocessed, index) = Text(<<"*">>))
        multiplied == execute_multiply(preprocessed, indexes)
    IN  IF multiplied.exc # NoExc THEN Raised(multiplied.exc)
        ELSE Number(execute_add(multiplied.list))

\* do_math(statement).  do_math_for is its `for symbol in statement` from the i-th
\* symbol on, and the code after the loop.  In the try, int(symbol) raises
\* ValueError unless the symbol is a digit, and for a digit
\* `current_number += int(symbol)` raises TypeError, current_number being a
\* str; the bare except passes over both, so current_number stays ''.
RECURSIVE do_math(_)
RECURSIVE do_math_for(_, _, _, _, _, _)
do_math_for(math_statement, i, open_statements, currently_open_pars, current_statement, current_number) ==
    IF i > Len(math_statement)
    THEN IF currently_open_pars # 0 THEN NoValue
         ELSE execute(IF current_number # <<>>
                      THEN Append(open_statements, Text(current_number))
                      ELSE open_statements)
    ELSE LET symbol == math_statement[i]
             par_val == parenthesis_value(symbol)
             opened == IF par_val = 1 THEN currently_open_pars + par_val
                       ELSE currently_open_pars
             tried == IF int(Text(<<symbol>>)).tag = "raise" THEN "ValueError"
                      ELSE "TypeError"
             added == IF ~(abs(par_val) = opened) \/ par_val = 0
                      THEN Append(current_statement, symbol)
                      ELSE current_statement
             was_complex_statement == opened > 0
             closed == IF par_val = -1 THEN opened + par_val ELSE opened
             inner == do_math(added)
         IN  IF symbol = " "
             THEN do_math_for(math_statement, i + 1, open_statements, currently_open_pars,
                              current_statement, current_number)
             ELSE IF tried = NoExc
             THEN do_math_for(math_statement, i + 1, open_statements, opened,
                              current_statement, current_number)
             ELSE IF current_number # <<>> THEN Raised("TypeError")
             ELSE IF closed = 0
             THEN IF was_complex_statement
                  THEN IF inner.tag = "raise" THEN inner
                       ELSE do_math_for(math_statement, i + 1, Append(open_statements, inner),
                                        closed, <<>>, current_number)
                  ELSE do_math_for(math_statement, i + 1,
                                   Append(open_statements, Text(added)),
                                   closed, <<>>, current_number)
             ELSE IF closed < 0 THEN NoValue
             ELSE do_math_for(math_statement, i + 1, open_statements, closed, added,
                              current_number)

do_math(math_statement) == do_math_for(math_statement, 1, <<>>, 0, <<>>, <<>>)

\* ------------------------------------------------------------------ inputs

\* All texts over an alphabet up to a length.
RECURSIVE Texts(_, _)
Texts(alphabet, length) ==
    IF length = 0 THEN {<<>>}
    ELSE LET shorter == Texts(alphabet, length - 1)
         IN  shorter \cup {Append(t, c) : t \in shorter, c \in alphabet}

a == string(<<"a">>)
b == string(<<"b">>)
ab == string(<<"a", "b">>)
ac == string(<<"a", "c">>)
plus == string(<<"+">>)

\* Combinators over letters, and the targets they are run on.
LetterParsers ==
    {a, ab,
     any_of(<<ab, ac>>), any_of(<<a, ab>>), any_of(<<>>),
     many(a, 1), many(a, 2), many(a, 0), many(sequence_of(<<a, b>>), 1),
     optional(ab), optional(sequence_of(<<a, b>>)),
     sequence_of(<<a, b>>), sequence_of(<<>>),
     sequence_of(<<optional(sequence_of(<<a, b>>)), any_of(<<>>)>>),
     lazy("a"), map(many(a, 1), "singleton_list_unpacker"),
     between(a, string(<<"x">>), string(<<"x">>)),
     optional(string(<<"x">>)),
     sequence_of(<<optional(a)>>),
     between(optional(a), optional(string(<<"x">>)), optional(string(<<"x">>))),
     map(seperated_by(plus, optional(a)), "singleton_list_unpacker"),
     sequence_of(<<a, sequence_of(<<a, b>>)>>)}

LetterTargets ==
    Texts({"a", "b"}, MaxLen)
    \cup {<<"a", "x">>, <<"x", "a", "x">>, <<"x", "a", "b">>, <<"y">>, <<"x">>,
          <<"x", "x">>}

\* Separated lists over digits, and the targets they are run on.
ListParsers ==
    {seperated_by(plus, DIGITS), seperated_by(plus, string(<<"1">>)),
     seperated_by(string_tuple(<<<<"+">>, <<"-">>>>), DIGITS),
     seperated_by(optional(plus), DIGITS),
     seperated_by(plus, sequence_of(<<string(<<"1">>)>>))}

ListTargets ==
    Texts({"1", "+"}, MaxLen)
    \cup {<<"1", "+", "2">>, <<"1", "+", "1", "+">>, <<"1", "-", "2", "+">>,
          <<"1", "2", "+", "3", "+", "4", "5">>}

\* The equation grammar, and the targets it is run on: those of the tests of
\* equationparser.py (stripped of spaces, as test_equation does) and others.
EquationTargets ==
    Texts({"1", "(", ")"}, MaxLen - 1)
    \cup {<<"1", "+", "1">>,
          <<"1", "+", "(", "1", "-", "2", ")">>,
          <<"(", "1", "+", "(", "2", "+", "3", ")", ")">>,
          <<"(", "1", "+", "2">>,
          <<"(", "1", ")">>, <<"1", "(", "1", ")">>, <<"(", "1", ")", "(", "1", ")">>,
          <<"(", "(", "1", ")", ")", "+", "1">>}

\* Loops over a parser that can succeed without consuming input, which the
\* docstring of optional forbids, and the targets they are run on.
RepeatParsers ==
    {many(optional(a), 1), seperated_by(optional(plus), optional(a))}

RepeatTargets == Texts({"a", "b"}, MaxLen - 1)

\* run(target, traverse) of a combinator; the equation parser and the loops
\* over optional are run without traverse.
Inputs ==
    (LetterParsers \X LetterTargets \X BOOLEAN)
    \cup (RepeatParsers \X RepeatTargets \X {FALSE})
    \cup (ListParsers \X ListTargets \X BOOLEAN)
    \cup ({statement} \X EquationTargets \X {FALSE})

\* The statements do_math is called with: the texts of digits, operators,
\* parentheses and spaces, and the examples of pretest_do_math.py and
\* others.
Statements ==
    Texts({"1", "2", "+", "*", "(", ")", " "}, MaxLen)
    \cup {<<"1", "+", "2", "*", "3">>,
          <<"(", "1", "+", "2", ")", " ", "*", " ", "3">>,
          <<"1", "2", "+", "3">>,
          <<"2", "*", "3", "*", "4">>,
          <<"2", "*", "(", "1", "+", "(", "2", "*", "2", ")", ")">>,
          <<"(", "1", "+", "2", ")", ")">>,
          <<"(", "(", "1", "+", "2", ")">>}

\* The combinators a client applies to the state a run returned.
ChainParsers ==
    {a, DIGITS, optional(ab), sequence_of(<<a, b>>), any_of(<<ab, ac>>), any_of(<<>>),
     many(a, 1), seperated_by(plus, DIGITS), lazy("a"),
     map(a, "singleton_list_unpacker"), between(a, a, a)}

\* ------------------------------------------------------------ the program

VARIABLES
    do_debugging,           \* pyparse.do_debugging
    total_transformations,  \* ParserState.total_transformations
    heap,                   \* the list objects
    produced,               \* the ParserStates constructed, as constructed
    calls,                  \* the applications made, in the order they began
    stack,                  \* the applications that have not returned
    state,                  \* the ParserState the client holds
    exc,                    \* the exception the client's application raised
    chain,                  \* what the client did since run: 0 nothing,
                            \* 1 applied a combinator, 2 ran again
    asked,                  \* the statement do_math is called with
    answer                  \* what do_math returned or raised

vars == <<do_debugging, total_transformations, heap, produced, calls, stack, state,
          exc, chain, asked, answer>>

\* The execution context of the current state.
Ctx ==
    [heap |-> heap, produced |-> produced, calls |-> calls, stack |-> stack,
     state |-> state, exc |-> exc, total_transformations |-> total_transformations]

\* The step leaves the context ctx.
Becomes(ctx) ==
    /\ heap' = ctx.heap
    /\ produced' = ctx.produced
    /\ calls' = ctx.calls
    /\ stack' = ctx.stack
    /\ state' = ctx.state
    /\ exc' = ctx.exc
    /\ total_transformations' = ctx.total_transformations
    /\ UNCHANGED <<do_debugging, asked, answer>>

\* No ParserState exists yet.
NoState == ParserState(<<>>, FALSE, NoRef)

\* do_math has not been called.
NotCalled == [tag |-> "not called", int |-> 0, str |-> <<>>]

\* The library as it is imported.
Imported ==
    /\ do_debugging = FALSE
    /\ total_transformations = None
    /\ heap = <<>>
    /\ produced = <<>>
    /\ calls = <<>>
    /\ stack = <<>>
    /\ state = NoState
    /\ exc = NoExc
    /\ chain = 0

Init ==
    /\ Imported
    /\ asked = <<>>
    /\ answer = NotCalled

\* A behaviour is one session of a client: it sets up debugging or not, runs
\* a combinator on a target, and may then apply one combinator to the state
\* it got or run the combinator again.
setup_debugging(enable_logging) ==
    /\ Len(produced) = 0
    /\ do_debugging' = enable_logging
    /\ total_transformations' = 0
    /\ UNCHANGED <<heap, produced, calls, stack, state, exc, chain, asked, answer>>

\* The client applies a combinator to a state.
Apply(ctx, parser, st) ==
    [ctx EXCEPT !.stack = <<Frame(parser, st, Len(ctx.calls) + 1)>>,
                !.calls = Append(@, [parser |-> parser, in |-> st, out |-> st,
                                     returned |-> FALSE, parent |-> 0,
                                     transformed |-> FALSE])]

\* PyParse.run: the seed state, and the root combinator applied to it.
run(parser, target, traverse) ==
    LET seed == ParserState(target, traverse, 1)
    IN  /\ Len(produced) = 0
        /\ Becomes(Apply(Produced([Ctx EXCEPT !.heap = <<<<>>>>], seed), parser, seed))
        /\ chain' = 0

\* The client applies a combinator to the state the last application returned.
apply(parser) ==
    /\ Len(produced) > 0
    /\ Len(stack) = 0
    /\ exc = NoExc
    /\ chain = 0
    /\ Becomes(Apply(Ctx, parser, state))
    /\ chain' = chain + 1

\* PyParse.run called again on the same combinator object with the same
\* target: a new seed state with a new errors list, and the combinator
\* applied to it.
rerun ==
    LET seed == ParserState(calls[1].in.target, calls[1].in.traverse, NewRef(Ctx))
    IN  /\ Len(produced) > 0
        /\ Len(stack) = 0
        /\ exc = NoExc
        /\ chain = 0
        /\ Becomes(Apply(Produced(Alloc(Ctx, <<>>), seed), calls[1].parser, seed))
        /\ chain' = 2

\* The running application is of a combinator of this kind.
Running(kind) == Len(stack) > 0 /\ Top(Ctx).parser.kind = kind

\* The `while True` of the running application is still followed: a loop
\* that never stops is left when its results pass the bound.
Followed ==
    IF Top(Ctx).pc = "start" THEN TRUE
    ELSE Len(heap[Top(Ctx).results]) <= 2 * Len(Top(Ctx).state.target) + MaxRepeat

string_step ==
    /\ Running("string")
    /\ Becomes(find_string_transformer(Ctx, Top(Ctx)))
    /\ UNCHANGED chain

regex_step ==
    /\ Running("regex")
    /\ Becomes(find_regex_transformer(Ctx, Top(Ctx)))
    /\ UNCHANGED chain

optional_step ==
    /\ Running("optional")
    /\ Becomes(optional_parser_transformer(Ctx, Top(Ctx)))
    /\ UNCHANGED chain

sequence_of_step ==
    /\ Running("sequence_of")
    /\ Becomes(parser_sequence_transformer(Ctx, Top(Ctx)))
    /\ UNCHANGED chain

any_of_step ==
    /\ Running("any_of")
    /\ Becomes(any_parser_transformer(Ctx, Top(Ctx)))
    /\ UNCHANGED chain

many_step ==
    /\ Running("many")
    /\ Followed
    /\ Becomes(many_transformer(Ctx, Top(Ctx)))
    /\ UNCHANGED chain

seperated_by_step ==
    /\ Running("seperated_by")
    /\ Followed
    /\ Becomes(seperated_by_transformer(Ctx, Top(Ctx)))
    /\ UNCHANGED chain

lazy_step ==
    /\ Running("lazy")
    /\ Becomes(lazy_transformer(Ctx, Top(Ctx)))
    /\ UNCHANGED chain

map_step ==
    /\ Running("map")
    /\ Becomes(map_transformer(Ctx, Top(Ctx)))
    /\ UNCHANGED chain

Next ==
    \/ \E enable_logging \in BOOLEAN : setup_debugging(enable_logging)
    \/ \E input \in Inputs : run(input[1], input[2], input[3])
    \/ \E parser \in ChainParsers : apply(parser)
    \/ rerun
    \/ string_step
    \/ regex_step
    \/ optional_step
    \/ sequence_of_step
    \/ any_of_step
    \/ many_step
    \/ seperated_by_step
    \/ lazy_step
    \/ map_step

Spec == Init /\ [][Next]_vars

\* pretest_do_math.py: a behaviour is one call of do_math.
MathInit ==
    /\ Imported
    /\ asked \in Statements
    /\ answer = NotCalled

call_do_math ==
    /\ answer = NotCalled
    /\ answer' = do_math(asked)
    /\ UNCHANGED <<do_debugging, total_transformations, heap, produced, calls, stack,
                   state, exc, chain, asked>>

MathNext == call_do_math

MathSpec == MathInit /\ [][MathNext]_vars

\* ------------------------------------------------------------ observations

\* The applications that have returned, by their place in the log.
Returned == {i \in 1..Len(calls) : calls[i].returned}

\* The returned applications of a kind of combinator to a state that was
\* not an error.
Applied(kind) ==
    {i \in Returned : calls[i].parser.kind = kind /\ ~calls[i].in.is_error}

\* The applications that application i made, and the k-th of them.
Made(i) == {j \in 1..Len(calls) : calls[j].parent = i}

Nth(i, k) == CHOOSE j \in Made(i) : Cardinality({x \in Made(i) : x < j}) = k

\* The messages of a state, newest first.
Errors(st) == heap[st.errors]

\* run has returned its final state to the client.
RunReturned == Len(calls) > 0 /\ calls[1].returned /\ chain = 0

\* run(target, traverse) of `parser` has returned its final state.
Ran(parser, target) ==
    /\ RunReturned
    /\ calls[1].parser = parser
    /\ calls[1].in.target = target

\* A result as a value: a str, a list of values.
Str(text) == [tag |-> "str", str |-> text, items |-> <<>>]

List(items) == [tag |-> "list", str |-> <<>>, items |-> items]

\* ------------------------------------------------------------------ claims

\* C1: applying a combinator to a state never alters the state: every
\* ParserState ever constructed, the ones passed to combinators included,
\* still shows the fields it was constructed with (its errors list and result
\* list by content), whatever has been applied since.
C1_StatesAreNeverAltered ==
    /\ \A i \in 1..Len(produced) : View(heap, produced[i].st) = produced[i].view
    /\ \A i \in 1..Len(calls) :
           \E j \in 1..Len(produced) : produced[j].st = calls[i].in

\* C1 witness: a combinator has failed on a state that holds a list result
\* built by appending, and that state is still in the log.
C1_Witness ==
    \E i \in Returned, j \in Returned :
        /\ i < j
        /\ calls[i].out.result.tag = "list"
        /\ Len(heap[calls[i].out.result.ref]) >= 3
        /\ calls[j].in = calls[i].out
        /\ calls[j].out.is_error

\* C2 (as claimed): the furthest_index of the final state of a run is at
\* least the index of every state produced during the run.
C2_FurthestIsHighWaterMark ==
    RunReturned =>
        \A i \in 1..Len(produced) : produced[i].st.index <= state.furthest_index

\* C3 (as claimed): every application of a combinator returns a state whose
\* furthest_index is at least that of the state it was applied to.
C3_FurthestNeverDecreases ==
    \A i \in Returned : calls[i].out.furthest_index >= calls[i].in.furthest_index

\* C4 (as claimed): any_of(string('ab'), string('ac')) run on 'ax' returns
\* an error state whose furthest_index is 1.
C4_FurthestOneOnAx ==
    Ran(any_of(<<ab, ac>>), <<"a", "x">>) =>
        /\ state.is_error
        /\ state.furthest_index = 1

\* C4 (amended): any_of(string('ab'), string('ac')) run on 'ax' returns an
\* error state at index 0 whose furthest_index is 0: a literal that does not
\* match as a whole leaves index and furthest_index where they were, and so
\* does the failure of any_of.
C4_FurthestZeroOnAx ==
    Ran(any_of(<<ab, ac>>), <<"a", "x">>) =>
        /\ state.is_error
        /\ state.index = 0
        /\ state.furthest_index = 0
        /\ \A i \in Made(1) :
               /\ calls[i].out.is_error
               /\ calls[i].out.index = 0
               /\ calls[i].out.furthest_index = 0

\* C4 witness: that run has returned, both alternatives having been tried.
C4_Witness ==
    /\ Ran(any_of(<<ab, ac>>), <<"a", "x">>)
    /\ Cardinality(Made(1)) = 2

\* C5 (as claimed): when many returns a successful state, its index is the
\* index after the last successful application, its result is the list of the
\* successful applications' results in order, and its furthest_index is that
\* of the last, failing, attempt.
C5_ManyKeepsFailingFurthest ==
    \A i \in Applied("many") :
        ~calls[i].out.is_error =>
            LET n == Cardinality(Made(i))
                failing == calls[Nth(i, n - 1)].out
                last == IF n = 1 THEN calls[i].in ELSE calls[Nth(i, n - 2)].out
            IN  /\ failing.is_error
                /\ calls[i].out.index = last.index
                /\ Deep(heap, calls[i].out.result)
                       = List([k \in 1..(n - 1) |->
                                   Deep(heap, calls[Nth(i, k - 1)].out.result)])
                /\ calls[i].out.furthest_index = failing.furthest_index

\* C6: when fewer than `minimum` applications succeed, many returns an error
\* state with the index and the result of the state it was applied to, and
\* the count-mismatch message as its newest error.
C6_ManyFailsFromIncoming ==
    \A i \in Applied("many") :
        LET n == Cardinality(Made(i))
            minimum_number == calls[i].parser.minimum_number
        IN  /\ calls[i].out.is_error <=> n - 1 < minimum_number
            /\ calls[i].out.is_error =>
                   /\ \A k \in 0..(n - 2) : ~calls[Nth(i, k)].out.is_error
                   /\ calls[i].out.index = calls[i].in.index
                   /\ calls[i].out.result = calls[i].in.result
                   /\ Errors(calls[i].out)
                          = <<<<"many: ", ToString(n - 1), " matches, ",
                                ToString(minimum_number), " required!">>>>
                            \o Errors(calls[i].in)

\* C6 witness: many has failed after an application that succeeded and
\* advanced the index.
C6_Witness ==
    \E i \in Applied("many") :
        /\ calls[i].out.is_error
        /\ Cardinality(Made(i)) >= 2
        /\ calls[Nth(i, 0)].out.index > calls[i].in.index

\* The results of the first n applications that application i made, as a
\* list value.
ResultsOf(i, n) == List([k \in 1..n |-> Deep(heap, calls[Nth(i, k - 1)].out.result)])

\* seperated_by application i stopped on a separator that matched and that
\* no item followed: the input ended right after it, or the next item failed.
TrailingSeperator(i) ==
    LET n == Cardinality(Made(i))
    IN  \/ /\ n >= 2 /\ n % 2 = 0
           /\ ~calls[Nth(i, n - 1)].out.is_error
        \/ /\ n >= 3 /\ n % 2 = 1
           /\ calls[Nth(i, n - 1)].out.is_error

\* C7: when a separator matches but no item follows it, seperated_by returns
\* a successful state whose result lists the items and separators up to the
\* last matched item, without the trailing separator, and whose index is the
\* position just after the last matched item, where the unconsumed separator
\* was applied; with item DIGITS and separator '+', '1+1+' gives
\* ['1', '+', '1'] and index 3.
C7_TrailingSeperatorIsDropped ==
    /\ \A i \in Applied("seperated_by") :
           TrailingSeperator(i) =>
               LET n == Cardinality(Made(i))
                   matched == IF n % 2 = 0 THEN n - 1 ELSE n - 2
                   item == calls[Nth(i, matched - 1)]
                   trailing == calls[Nth(i, matched)]
               IN  /\ ~calls[i].out.is_error
                   /\ item.parser = calls[i].parser.parsers[2]
                   /\ trailing.parser = calls[i].parser.parsers[1]
                   /\ ~item.out.is_error
                   /\ ~trailing.out.is_error
                   /\ Deep(heap, calls[i].out.result) = ResultsOf(i, matched)
                   /\ calls[i].out.index = item.out.index
                   /\ calls[i].out.index = trailing.in.index
    /\ Ran(seperated_by(plus, DIGITS), <<"1", "+", "1", "+">>) =>
           /\ ~state.is_error
           /\ Deep(heap, state.result)
                  = List(<<Str(<<"1">>), Str(<<"+">>), Str(<<"1">>)>>)
           /\ state.index = 3

\* C7 witness: seperated_by has returned after two items and a trailing
\* separator that consumed input and that no item followed.
C7_Witness ==
    \E i \in Applied("seperated_by") :
        LET n == Cardinality(Made(i))
        IN  /\ TrailingSeperator(i)
            /\ n >= 4
            /\ calls[Nth(i, IF n % 2 = 0 THEN n - 1 ELSE n - 2)].out.index
                   > calls[i].out.index

\* C8: applied to a state that is not an error, seperated_by returns an
\* error state exactly when its first item fails, and then it returns that
\* failure with every message prefixed by 'seperated_by: '; once the first
\* item has matched it returns a successful state whatever the separator and
\* the later items do.
C8_FailsOnlyOnFirstItem ==
    \A i \in Applied("seperated_by") :
        LET first == calls[Nth(i, 0)]
        IN  /\ Cardinality(Made(i)) >= 1
            /\ first.parser = calls[i].parser.parsers[2]
            /\ first.in = calls[i].in
            /\ calls[i].out.is_error <=> first.out.is_error
            /\ calls[i].out.is_error =>
                   /\ Cardinality(Made(i)) = 1
                   /\ Len(Errors(calls[i].out)) = Len(Errors(first.out))
                   /\ \A k \in 1..Len(Errors(first.out)) :
                          Errors(calls[i].out)[k]
                              = <<"seperated_by", ": ">> \o Errors(first.out)[k]
                   /\ [calls[i].out EXCEPT !.errors = NoRef]
                          = [first.out EXCEPT !.errors = NoRef]

\* C8 witness: seperated_by has returned a successful state although a
\* later item failed after a separator that matched.
C8_Witness ==
    \E i \in Applied("seperated_by") :
        LET n == Cardinality(Made(i))
        IN  /\ n >= 3 /\ n % 2 = 1
            /\ calls[Nth(i, n - 1)].out.is_error
            /\ ~calls[i].out.is_error

\* `text` is a match of the literal or of the pattern of `parser`, or of
\* nothing when parser is optional.
Matches(parser, text) ==
    CASE parser.kind = "string" -> text = parser.to_match
      [] parser.kind = "regex" ->
             IF parser.pattern.repeat
             THEN /\ Len(text) >= 1
                  /\ \A k \in 1..Len(text) :
                         \E j \in 1..Len(parser.pattern.alternatives) :
                             parser.pattern.alternatives[j] = <<text[k]>>
             ELSE \E j \in 1..Len(parser.pattern.alternatives) :
                      parser.pattern.alternatives[j] = text
      [] parser.kind = "optional" ->
             text = <<>> \/ text = parser.parsers[1].to_match
      [] OTHER -> FALSE

\* `text` is items joined by separators: an item, or an item, a separator
\* and items joined by separators.
RECURSIVE Joined(_, _, _)
Joined(seperator, target, text) ==
    \E n \in 1..Len(text) :
        /\ Matches(target, SubSeq(text, 1, n))
        /\ \/ n = Len(text)
           \/ \E m \in 0..(Len(text) - n - 1) :
                  /\ Matches(seperator, SubSeq(text, n + 1, n + m))
                  /\ Joined(seperator, target, SliceFrom(text, n + m))

\* C9: on success seperated_by returns a list of odd length that alternates
\* the result of an item and the result of a separator in the order they
\* were matched, each applied where the one before it stopped, and that
\* never ends with a separator; when the whole input from the incoming index
\* on is items joined by separators, the returned index is the length of the
\* input and is_incomplete_match() is false; seperated_by(string('+'),
\* DIGITS) on '12+3+45' gives ['12', '+', '3', '+', '45'] and index 7.
C9_ResultAlternates ==
    /\ \A i \in Applied("seperated_by") :
           ~calls[i].out.is_error =>
               LET result == Deep(heap, calls[i].out.result)
                   length == Len(result.items)
               IN  /\ result.tag = "list"
                   /\ length % 2 = 1
                   /\ length <= Cardinality(Made(i))
                   /\ result = ResultsOf(i, length)
                   /\ \A k \in 1..length :
                          LET c == calls[Nth(i, k - 1)]
                          IN  /\ c.parser = calls[i].parser.parsers[IF k % 2 = 1 THEN 2 ELSE 1]
                              /\ ~c.out.is_error
                              /\ c.in = IF k = 1 THEN calls[i].in
                                        ELSE calls[Nth(i, k - 2)].out
                   /\ calls[i].out.index = calls[Nth(i, length - 1)].out.index
                   /\ Joined(calls[i].parser.parsers[1], calls[i].parser.parsers[2],
                             SliceFrom(calls[i].in.target, calls[i].in.index)) =>
                          /\ calls[i].out.index = Len(calls[i].in.target)
                          /\ ~is_incomplete_match(calls[i].out)
    /\ Ran(seperated_by(plus, DIGITS), <<"1", "2", "+", "3", "+", "4", "5">>) =>
           /\ ~state.is_error
           /\ Deep(heap, state.result)
                  = List(<<Str(<<"1", "2">>), Str(<<"+">>), Str(<<"3">>),
                           Str(<<"+">>), Str(<<"4", "5">>)>>)
           /\ state.index = 7

\* C9 witness: the run on '12+3+45' has returned.
C9_Witness ==
    /\ Ran(seperated_by(plus, DIGITS), <<"1", "2", "+", "3", "+", "4", "5">>)
    /\ Cardinality(Made(1)) = 5

\* C10: any_of applies its alternatives in declaration order, each to the
\* state any_of was applied to; it returns the state of the first
\* alternative that succeeds and applies no alternative after it; when every
\* alternative fails it returns an error state with the index and the result
\* of the incoming state, whose newest error is 'any_of: no target matched!'
\* and whose older errors are the incoming state's.
C10_FirstSuccessWins ==
    \A i \in Applied("any_of") :
        LET n == Cardinality(Made(i))
            parsers == calls[i].parser.parsers
        IN  /\ n <= Len(parsers)
            /\ \A k \in 1..n :
                   /\ calls[Nth(i, k - 1)].parser = parsers[k]
                   /\ calls[Nth(i, k - 1)].in = calls[i].in
                   /\ k < n => calls[Nth(i, k - 1)].out.is_error
            /\ IF n > 0 /\ ~calls[Nth(i, n - 1)].out.is_error
               THEN calls[i].out = calls[Nth(i, n - 1)].out
               ELSE /\ n = Len(parsers)
                    /\ calls[i].out.is_error
                    /\ calls[i].out.index = calls[i].in.index
                    /\ calls[i].out.result = calls[i].in.result
                    /\ Errors(calls[i].out)
                           = <<<<"any_of: no target matched!">>>>
                             \o Errors(calls[i].in)

\* C10 witness: any_of has returned the state of its second alternative,
\* which consumed input, after its first one failed.
C10_Witness ==
    \E i \in Applied("any_of") :
        /\ Cardinality(Made(i)) = 2
        /\ calls[Nth(i, 0)].out.is_error
        /\ ~calls[i].out.is_error
        /\ calls[i].out.index > calls[i].in.index

\* C11: applied to a state that is not an error, optional(p) applies p once,
\* to that state, and never returns an error state: when p fails it returns
\* a state that is not an error, with no errors, the incoming index, the
\* result None and the furthest_index of the failed attempt; when p succeeds
\* it returns the state p returned; optional(string('x')) run on 'y' succeeds
\* with result None and index 0.
C11_OptionalNeverFails ==
    /\ \A i \in Applied("optional") :
           LET attempt == calls[Nth(i, 0)]
           IN  /\ Cardinality(Made(i)) = 1
               /\ attempt.parser = calls[i].parser.parsers[1]
               /\ attempt.in = calls[i].in
               /\ ~calls[i].out.is_error
               /\ IF attempt.out.is_error
                  THEN /\ Errors(calls[i].out) = <<>>
                       /\ calls[i].out.index = calls[i].in.index
                       /\ calls[i].out.result = PyNone
                       /\ calls[i].out.furthest_index = attempt.out.furthest_index
                  ELSE calls[i].out = attempt.out
    /\ Ran(optional(string(<<"x">>)), <<"y">>) =>
           /\ ~state.is_error
           /\ state.result = PyNone
           /\ state.index = 0

\* C11 witness: optional has returned after an attempt that failed further on
\* than the incoming state had got.
C11_Witness ==
    \E i \in Applied("optional") :
        /\ calls[Nth(i, 0)].out.is_error
        /\ calls[Nth(i, 0)].out.furthest_index > calls[i].in.furthest_index

\* C12: sequence_of applies its parsers in declared order, each to the state
\* the one before it returned (the first to the incoming state); at the
\* first parser that returns an error state it applies no later parser and
\* returns an error state whose errors are the failing parser's errors with
\* 'sequence: component failed to match' added as the newest entry.
C12_SequenceStopsAtFirstFailure ==
    \A i \in Applied("sequence_of") :
        LET n == Cardinality(Made(i))
            parsers == calls[i].parser.parsers
        IN  /\ n <= Len(parsers)
            /\ \A k \in 1..n :
                   /\ calls[Nth(i, k - 1)].parser = parsers[k]
                   /\ calls[Nth(i, k - 1)].in
                          = IF k = 1 THEN calls[i].in ELSE calls[Nth(i, k - 2)].out
                   /\ k < n => ~calls[Nth(i, k - 1)].out.is_error
            /\ n < Len(parsers) => calls[Nth(i, n - 1)].out.is_error
            /\ (n > 0 /\ calls[Nth(i, n - 1)].out.is_error) =>
                   /\ calls[i].out.is_error
                   /\ Errors(calls[i].out)
                          = <<<<"sequence: component failed to match">>>>
                            \o Errors(calls[Nth(i, n - 1)].out)

\* C12 witness: a sequence_of has returned after its first parser succeeded
\* and its second one failed, a third one never being applied.
C12_Witness ==
    \E i \in Applied("sequence_of") :
        /\ Cardinality(Made(i)) = 2
        /\ Len(calls[i].parser.parsers) = 3
        /\ ~calls[Nth(i, 0)].out.is_error
        /\ calls[Nth(i, 0)].out.index > calls[i].in.index
        /\ calls[Nth(i, 1)].out.is_error

\* C13 (as claimed): sequence_of returns an error state whose newest error
\* is 'sequence: parsers matched nothing!' both when its parser list is empty
\* and when its parsers all succeed without one result that is not None; it
\* never succeeds with an empty result list.
C13_SequenceNeverEmpty ==
    \A i \in Applied("sequence_of") :
        LET n == Cardinality(Made(i))
            nothing == /\ n = Len(calls[i].parser.parsers)
                       /\ \A k \in 1..n :
                              /\ ~calls[Nth(i, k - 1)].out.is_error
                              /\ calls[Nth(i, k - 1)].out.result = PyNone
        IN  /\ nothing =>
                /\ calls[i].out.is_error
                /\ Errors(calls[i].out)
                       = <<<<"sequence: parsers matched nothing!">>>>
                         \o Errors(calls[i].in)
            /\ ~calls[i].out.is_error =>
                /\ calls[i].out.result.tag = "list"
                /\ Len(heap[calls[i].out.result.ref]) > 0

\* The applications of p.between(left, right) to a state that is not an
\* error, returned or not.
Between ==
    {i \in 1..Len(calls) : /\ calls[i].parser.kind = "map"
                           /\ calls[i].parser.result_transformer = "between"
                           /\ ~calls[i].in.is_error}

\* In application i of p.between(left, right), left, p and right have
\* matched one after another.
BetweenMatched(i) ==
    /\ Cardinality(Made(i)) = 1
    /\ calls[Nth(i, 0)].returned
    /\ Cardinality(Made(Nth(i, 0))) = 3
    /\ \A k \in 0..2 : ~calls[Nth(Nth(i, 0), k)].out.is_error

\* C14 (as claimed): p.between(left, right) succeeds exactly when left, p and
\* right match one after another, and its result is then the result of p,
\* whatever the results of left, p and right are, None included.
C14_BetweenKeepsMiddle ==
    \A i \in Between :
        /\ (calls[i].returned /\ ~calls[i].out.is_error) => BetweenMatched(i)
        /\ (BetweenMatched(i) /\ Len(stack) = 0) =>
               /\ calls[i].returned
               /\ ~calls[i].out.is_error
               /\ Deep(heap, calls[i].out.result)
                      = Deep(heap, calls[Nth(Nth(i, 0), 1)].out.result)

\* The result, by content, that the result transformer of map application i
\* gives for the result r.
Transformed(i, r) == Deep(heap, result_transformer(Ctx, calls[i].parser.result_transformer, r).st)

\* C15 (as claimed): p.map(f) applies p to the incoming state; when p
\* succeeds with result r, f is called and the returned state has the
\* result f(r), whatever f returns, None included, and the index, is_error
\* and errors of the state p returned; when p fails, the state p returned is
\* returned as it is and f is not called.
C15_MapReplacesResult ==
    \A i \in Returned :
        calls[i].parser.kind = "map" =>
            LET p == calls[Nth(i, 0)]
            IN  /\ Cardinality(Made(i)) = 1
                /\ p.parser = calls[i].parser.parsers[1]
                /\ p.in = calls[i].in
                /\ IF p.out.is_error
                   THEN /\ calls[i].out = p.out
                        /\ ~calls[i].transformed
                   ELSE /\ calls[i].transformed
                        /\ Deep(heap, calls[i].out.result) = Transformed(i, p.out.result)
                        /\ calls[i].out.index = p.out.index
                        /\ calls[i].out.is_error = p.out.is_error
                        /\ Errors(calls[i].out) = Errors(p.out)

\* C16 (as claimed): every combinator applied to a state that is already an
\* error returns a state with the same index, furthest_index, result and
\* errors, and applies no combinator and calls no supplier and no result
\* transformer in doing so.
C16_ErrorStateIsTerminal ==
    \A i \in Returned :
        calls[i].in.is_error =>
            /\ calls[i].out.is_error
            /\ calls[i].out.index = calls[i].in.index
            /\ calls[i].out.furthest_index = calls[i].in.furthest_index
            /\ calls[i].out.result = calls[i].in.result
            /\ Errors(calls[i].out) = Errors(calls[i].in)
            /\ Made(i) = {}
            /\ ~calls[i].transformed

\* `text` stands in `target` at the index k.
OccursAt(text, target, k) ==
    /\ k + Len(text) <= Len(target)
    /\ \A j \in 1..Len(text) : target[k + j] = text[j]

\* The indexes from `index` on at which `text` stands in `target`.
Occurrences(text, target, index) ==
    {k \in index..Len(target) : OccursAt(text, target, k)}

\* C17: string(text) applied to a state that is not an error: when no
\* character remains it fails with the error 'string: reached EOF'; without
\* traverse it succeeds exactly when text stands at the index, and returns
\* the index plus the length of text and the result text; with traverse it
\* succeeds exactly when text stands somewhere from the index on, and returns
\* the index just after the first such place, and the result text; every
\* failure leaves the index as it was.
C17_StringMatches ==
    \A i \in Applied("string") :
        LET in == calls[i].in
            out == calls[i].out
            text == calls[i].parser.to_match
            found == Occurrences(text, in.target, in.index)
            first == CHOOSE k \in found : \A other \in found : k <= other
        IN  /\ in.index >= Len(in.target) =>
                /\ out.is_error
                /\ Errors(out) = <<<<"string", ": ", "reached EOF">>>> \o Errors(in)
            /\ ~out.is_error <=> IF in.traverse THEN found # {}
                                 ELSE OccursAt(text, in.target, in.index)
            /\ ~out.is_error =>
                /\ out.index = Len(text) + (IF in.traverse THEN first ELSE in.index)
                /\ out.result = PyStr(text)
            /\ out.is_error =>
                /\ out.index = in.index
                /\ Len(Errors(out)) = Len(Errors(in)) + 1

\* C17 witness: with traverse, string has matched at the first of two places
\* where its text stands, after a place where it does not.
C17_Witness ==
    \E i \in Applied("string") :
        /\ calls[i].in.traverse
        /\ ~calls[i].out.is_error
        /\ ~OccursAt(calls[i].parser.to_match, calls[i].in.target, calls[i].in.index)
        /\ Cardinality(Occurrences(calls[i].parser.to_match, calls[i].in.target,
                                   calls[i].in.index)) = 2

\* C18 (as claimed): lazy(supplier) does not call the supplier when the
\* incoming state is an error or has no input left; otherwise it calls the
\* supplier once, applies the combinator supplied to the incoming state and
\* returns the state that combinator returns.
C18_LazySkipsSupplier ==
    \A i \in Returned :
        calls[i].parser.kind = "lazy" =>
            IF calls[i].in.is_error \/ is_remaining_target_empty(calls[i].in, None)
            THEN /\ Made(i) = {}
                 /\ calls[i].out = calls[i].in
            ELSE /\ Cardinality(Made(i)) = 1
                 /\ calls[Nth(i, 0)].parser = provider(calls[i].parser.provider)
                 /\ calls[Nth(i, 0)].in = calls[i].in
                 /\ calls[i].out = calls[Nth(i, 0)].out

\* The places where a number that begins after the place i of `text` can
\* end.
NumberEnds(text, i) ==
    {j \in (i + 1)..Len(text) :
         \A k \in (i + 1)..j : \E d \in 1..Len(Digits) : Digits[d] = <<text[k]>>}

\* The places where a statement, an expression, a parenthesised statement
\* and a row of them that begin after the place i of `text` can end.  A
\* statement is expressions joined by operators; an expression is a
\* parenthesised statement or a number, and, where `beside` allows it, a
\* number with parenthesised statements right after it or a row of
\* parenthesised statements.
RECURSIVE StatementEnds(_, _, _)
RECURSIVE ExpressionEnds(_, _, _)
RECURSIVE GroupEnds(_, _, _)
RECURSIVE GroupsEnds(_, _, _)
StatementEnds(text, i, beside) ==
    LET ends == ExpressionEnds(text, i, beside)
    IN  ends \cup UNION {StatementEnds(text, j + 1, beside) :
                            j \in {e \in ends :
                                      /\ e < Len(text)
                                      /\ \E o \in 1..Len(operation.pattern.alternatives) :
                                             operation.pattern.alternatives[o]
                                                 = <<text[e + 1]>>}}

ExpressionEnds(text, i, beside) ==
    LET numbers == NumberEnds(text, i)
        groups == GroupEnds(text, i, beside)
    IN  numbers \cup groups
        \cup (IF beside = "none" THEN {}
              ELSE IF beside = "one" THEN UNION {GroupEnds(text, j, beside) : j \in numbers}
              ELSE UNION {GroupsEnds(text, j, beside) : j \in numbers \cup groups})

GroupEnds(text, i, beside) ==
    IF i < Len(text) /\ text[i + 1] = "("
    THEN {j + 1 : j \in {e \in StatementEnds(text, i + 1, beside) :
                            e < Len(text) /\ text[e + 1] = ")"}}
    ELSE {}

GroupsEnds(text, i, beside) ==
    LET ends == GroupEnds(text, i, beside)
    IN  ends \cup UNION {GroupsEnds(text, j, beside) : j \in ends}

\* The whole of `text` is a statement.
WellFormed(text, beside) == Len(text) \in StatementEnds(text, 0, beside)

\* The nested list whose nesting is that of the parentheses of `text`, read
\* from the place i up to the parenthesis that closes the list, with the
\* place after it: a str for each number and each operator, a list for each
\* parenthesised part.
RECURSIVE Nest(_, _)
Nest(text, i) ==
    IF i > Len(text) THEN [items |-> <<>>, next |-> i]
    ELSE IF text[i] = ")" THEN [items |-> <<>>, next |-> i + 1]
    ELSE IF text[i] = "("
    THEN LET inner == Nest(text, i + 1)
             rest == Nest(text, inner.next)
         IN  [items |-> <<List(inner.items)>> \o rest.items, next |-> rest.next]
    ELSE LET ends == NumberEnds(text, i - 1)
             j == IF ends = {} THEN i ELSE CHOOSE e \in ends : \A o \in ends : o <= e
             rest == Nest(text, j + 1)
         IN  [items |-> <<Str(SubSeq(text, i, j))>> \o rest.items, next |-> rest.next]

\* C19 (as claimed): the equation grammar, run on a well-formed expression
\* (expressions joined by operators, an expression being a parenthesised
\* statement or a number that a parenthesised statement may follow), returns
\* a state that is not an error and not an incomplete match, whose result is
\* the nested list that mirrors the parentheses.
C19_ResultMirrorsParentheses ==
    (RunReturned /\ calls[1].parser = statement
     /\ WellFormed(calls[1].in.target, "one")) =>
        /\ ~state.is_error
        /\ ~is_incomplete_match(state)
        /\ Deep(heap, state.result) = List(Nest(calls[1].in.target, 1).items)

\* C19 (amended): the equation grammar, run on a well-formed expression
\* (expressions joined by operators, an expression being a row of
\* parenthesised statements or a number that such a row may follow), returns
\* a state that is not an error and not an incomplete match; when every
\* parenthesised statement stands alone as an expression the result is the
\* nested list that mirrors the parentheses, so '1+(1-2)' gives
\* ['1', '+', ['1', '-', '2']] and '(1)' gives [['1']]; a number and the
\* parenthesised statement right after it are wrapped in one more list, so
\* '1(1)' gives [['1', ['1']]].
C19_ResultMirrorsStandaloneGroups ==
    (RunReturned /\ calls[1].parser = statement) =>
        LET target == calls[1].in.target
            result == Deep(heap, state.result)
        IN  /\ WellFormed(target, "all") =>
                /\ ~state.is_error
                /\ ~is_incomplete_match(state)
            /\ WellFormed(target, "none") => result = List(Nest(target, 1).items)
            /\ target = <<"1", "+", "(", "1", "-", "2", ")">> =>
                   result = List(<<Str(<<"1">>), Str(<<"+">>),
                                   List(<<Str(<<"1">>), Str(<<"-">>), Str(<<"2">>)>>)>>)
            /\ target = <<"(", "1", ")">> => result = List(<<List(<<Str(<<"1">>)>>)>>)
            /\ target = <<"1", "(", "1", ")">> =>
                   result = List(<<List(<<Str(<<"1">>), List(<<Str(<<"1">>)>>)>>)>>)

\* C19 witness: the run on '(1+(2+3))' has returned a list in a list in a
\* list.
C19_Witness ==
    /\ Ran(statement, <<"(", "1", "+", "(", "2", "+", "3", ")", ")">>)
    /\ ~state.is_error
    /\ Deep(heap, state.result).items[1].items[3].tag = "list"

\* The equation grammar is being run, or has been run, on '(1+2' after
\* setup_debugging.
RunsUnbalanced ==
    /\ Len(calls) > 0
    /\ chain = 0
    /\ calls[1].parser = statement
    /\ calls[1].in.target = <<"(", "1", "+", "2">>
    /\ total_transformations # None

SameApplication(i, j) ==
    /\ calls[i].parser = calls[j].parser
    /\ View(heap, calls[i].in) = View(heap, calls[j].in)

\* C21: a combinator carries no state from one application to the next:
\* two applications of the same combinator object to states with the same
\* fields return states with the same fields, and make the same number of
\* applications of their components, whatever the combinator was applied to
\* in between.
C21_CombinatorsKeepNoState ==
    \A i \in Returned, j \in Returned :
        SameApplication(i, j) =>
            /\ View(heap, calls[i].out) = View(heap, calls[j].out)
            /\ Cardinality(Made(i)) = Cardinality(Made(j))

\* C21 witness: a combinator was run twice on the same target and returned
\* a list of three results both times, and its component was applied to the
\* same state in both runs, after it had been applied to other states.
C21_Witness ==
    /\ chain = 2
    /\ \E j \in Returned :
           /\ j > 1
           /\ calls[j].parent = 0
           /\ SameApplication(1, j)
           /\ calls[j].out.result.tag = "list"
           /\ Len(heap[calls[j].out.result.ref]) = 3
           /\ \E x \in Made(1), y \in Made(1), z \in Made(j) :
                  /\ x < y
                  /\ SameApplication(x, z)
                  /\ calls[y].parser = calls[x].parser
                  /\ ~SameApplication(x, y)

\* C22 (as claimed): the transformation counter never aborts a state
\* transition, whether the observer was set up or not: no application ends
\* with the TypeError of incrementing a counter that is still None.
C22_CounterNeverAborts == exc # "TypeError"

\* C23: in every ParserState of a run, the seed state and every state that
\* update and the helpers built on it construct or that a combinator is
\* applied to or returns, furthest_index >= index, also when add_error is
\* passed a furthest index below the index.
C23_FurthestIsAtLeastIndex ==
    /\ \A i \in 1..Len(produced) :
           produced[i].st.furthest_index >= produced[i].st.index
    /\ \A i \in 1..Len(calls) :
           /\ calls[i].in.furthest_index >= calls[i].in.index
           /\ calls[i].returned => calls[i].out.furthest_index >= calls[i].out.index
    /\ state.furthest_index >= state.index

\* C23 witness: any_of without alternatives has failed on a state whose
\* index is past the start: it passed add_error the furthest index 0.
C23_Witness ==
    \E i \in Applied("any_of") :
        /\ Len(calls[i].parser.parsers) = 0
        /\ calls[i].in.index > 0
        /\ calls[i].out.is_error
        /\ calls[i].out.furthest_index = calls[i].in.index

\* The errors list of a state is non-empty exactly when the state is an
\* error.
ErrorsMatchFlag(st) == (Len(Errors(st)) > 0) <=> st.is_error

\* C24: in every ParserState of a run, the errors list is non-empty exactly
\* when is_error is true; so the state that optional, many, any_of or
\* seperated_by returns after a child failed, when it is not an error, has
\* an empty errors list.
C24_ErrorsIffIsError ==
    /\ \A i \in 1..Len(produced) : ErrorsMatchFlag(produced[i].st)
    /\ \A i \in 1..Len(calls) :
           /\ ErrorsMatchFlag(calls[i].in)
           /\ calls[i].returned => ErrorsMatchFlag(calls[i].out)

\* A child of application i has failed and i has returned a state that is
\* not an error.
FellBack(i) ==
    /\ ~calls[i].out.is_error
    /\ \E j \in Made(i) : calls[j].returned /\ calls[j].out.is_error

\* C24 witness: optional, many, any_of or seperated_by has returned a state
\* that is not an error after a child failed, and its errors list is empty.
C24_Witness ==
    \E i \in Applied("optional") \cup Applied("many") \cup Applied("any_of")
              \cup Applied("seperated_by") :
        /\ FellBack(i)
        /\ Len(Errors(calls[i].out)) = 0

\* C25: when a combinator applied to a state that is not an error returns a
\* state that is not an error, the index of the returned state is at least
\* the index of the incoming state and at most the length of the target,
\* with traverse and without.
C25_IndexStaysInTarget ==
    \A i \in Returned :
        (~calls[i].in.is_error /\ ~calls[i].out.is_error) =>
            /\ calls[i].in.index <= calls[i].out.index
            /\ calls[i].out.index <= Len(calls[i].in.target)

\* C25 witness: with traverse, a combinator applied past the start of the
\* target has skipped a character and matched up to the end of the target;
\* without traverse, a regex has matched up to the end of the target.
C25_Witness ==
    \/ \E i \in Applied("string") :
           /\ calls[i].in.traverse
           /\ calls[i].in.index > 0
           /\ ~calls[i].out.is_error
           /\ calls[i].out.index > calls[i].in.index + Len(calls[i].parser.to_match)
           /\ calls[i].out.index = Len(calls[i].in.target)
    \/ \E i \in Applied("regex") :
           /\ ~calls[i].in.traverse
           /\ ~calls[i].out.is_error
           /\ calls[i].out.index > calls[i].in.index
           /\ calls[i].out.index = Len(calls[i].in.target)

\* The child of application i that returned an error, when i made one.
Failing(i) == {j \in Made(i) : calls[j].returned /\ calls[j].out.is_error}

\* A failing any_of and a failing many return an error state at the index
\* of the incoming state.
FailingChoiceKeepsIndex ==
    \A i \in Applied("any_of") \cup Applied("many") :
        calls[i].out.is_error => calls[i].out.index = calls[i].in.index

Begun(kind) ==
    {i \in 1..Len(calls) : calls[i].parser.kind = kind /\ ~calls[i].in.is_error}

\* The characters left of the target where application i began.
Remaining(i) == Len(calls[i].in.target) - calls[i].in.index

\* The applications that application i made and that matched.
Matched(i) == {j \in Made(i) : calls[j].returned /\ ~calls[j].out.is_error}

\* Every match of the repeated parser of the many i advanced the index.
ManyAdvances(i) ==
    \A j \in Matched(i) : calls[j].out.index > calls[j].in.index

\* The rounds of the `while True` of the seperated_by i in which the
\* seperator and then the item matched: round k applied the seperator as the
\* (2k)-th and the item as the (2k+1)-th application of i.
Rounds(i) ==
    {k \in 1..(Cardinality(Made(i)) \div 2) :
        2 * k + 1 <= Cardinality(Made(i)) /\ Nth(i, 2 * k) \in Matched(i)}

\* Every round of the seperated_by i advanced the index, from the state the
\* seperator was applied to, to the state the item returned.
SeperatedByAdvances(i) ==
    \A k \in Rounds(i) :
        calls[Nth(i, 2 * k)].out.index > calls[Nth(i, 2 * k - 1)].in.index

\* No loop of the log has matched without advancing the index.
LoopsAdvance ==
    /\ \A i \in Begun("many") : ManyAdvances(i)
    /\ \A i \in Begun("seperated_by") : SeperatedByAdvances(i)

\* A many whose every match advanced the index has matched at most once for
\* each character left of the target and has applied its parser at most
\* once more; a seperated_by whose every round advanced the index has gone
\* at most one round for each character left.
LoopsAreBounded ==
    /\ \A i \in Begun("many") :
           ManyAdvances(i) =>
               /\ Cardinality(Matched(i)) <= Remaining(i)
               /\ Cardinality(Made(i)) <= Remaining(i) + 1
    /\ \A i \in Begun("seperated_by") :
           SeperatedByAdvances(i) =>
               /\ Cardinality(Rounds(i)) <= Remaining(i)
               /\ Cardinality(Made(i)) <= 2 * Remaining(i) + 1

\* A run whose loops all advance makes at most sixteen applications for
\* each character of the target and sixteen more.
RunIsBounded ==
    (chain = 0 /\ Len(calls) > 0 /\ LoopsAdvance) =>
        Len(calls) <= 16 * (Len(calls[1].in.target) + 1)

\* C26: a run on a finite target ends when its loops advance.  The loop of
\* a many or a seperated_by stops after at most one round for each
\* character left of the target provided every match of the repeated
\* parser, or of the seperator followed by the item, advances the index; so
\* a loop that has gone round more often has matched without advancing.  A
\* run whose loops all advance makes a bounded number of applications, and
\* every step of a run begins an application or ends one, or raises an
\* exception.
C26_LoopsStopWhenTheyAdvance ==
    /\ [](LoopsAreBounded /\ RunIsBounded)
    /\ [][Len(stack) > 0 =>
              \/ Len(calls') + Cardinality(Returned') > Len(calls) + Cardinality(Returned)
              \/ exc' # NoExc]_vars

\* C26 witness: a many has matched once for each of the three characters of
\* its target, advancing each time, applied its parser once more and
\* returned.
C26_Witness ==
    \E i \in Applied("many") :
        /\ ManyAdvances(i)
        /\ Remaining(i) = 3
        /\ Cardinality(Matched(i)) = 3
        /\ Cardinality(Made(i)) = 4
        /\ ~calls[i].out.is_error

\* The text without its spaces.
Spaceless(text) == SelectSeq(text, LAMBDA c : c # " ")

\* The parentheses open before the k-th symbol of the text.
Level(text, k) ==
    Cardinality({j \in 1..(k - 1) : text[j] = "("})
    - Cardinality({j \in 1..(k - 1) : text[j] = ")"})

\* The places of an operator outside every parenthesis.
Outside(text, operator) ==
    {k \in 1..Len(text) : text[k] = operator /\ Level(text, k) = 0}

\* The parentheses of the text are balanced.
Balanced(text) ==
    /\ \A k \in 1..Len(text) : Level(text, k + 1) >= 0
    /\ Level(text, Len(text) + 1) = 0

\* Not an expression.
Meaningless == [ok |-> FALSE, n |-> 0]

\* The value of a text without spaces as an expression of non-negative
\* integers, '+', '*' and parentheses: parentheses first, then
\* multiplication, then addition.
RECURSIVE Meaning(_)
Meaning(text) ==
    LET Both(k, Combine(_, _)) ==
            LET left == Meaning(SubSeq(text, 1, k - 1))
                right == Meaning(SubSeq(text, k + 1, Len(text)))
            IN  IF left.ok /\ right.ok THEN [ok |-> TRUE, n |-> Combine(left.n, right.n)]
                ELSE Meaningless
        Last(places) == CHOOSE k \in places : \A j \in places : j <= k
        Add(x, y) == x + y
        Multiply(x, y) == x * y
    IN  IF ~Balanced(text) \/ Len(text) = 0 THEN Meaningless
        ELSE IF Outside(text, "+") # {} THEN Both(Last(Outside(text, "+")), Add)
        ELSE IF Outside(text, "*") # {} THEN Both(Last(Outside(text, "*")), Multiply)
        ELSE IF Head(text) = "(" /\ text[Len(text)] = ")"
        THEN Meaning(SubSeq(text, 2, Len(text) - 1))
        ELSE IF \A k \in 1..Len(text) : IsDigit(text[k])
        THEN [ok |-> TRUE, n |-> Decimal(text)]
        ELSE Meaningless

\* No space stands between two digits of the text.
NumbersAreWhole(text) ==
    \A j \in 1..Len(text), k \in 1..Len(text) :
        (j + 1 < k /\ IsDigit(text[j]) /\ IsDigit(text[k])) =>
            \E m \in (j + 1)..(k - 1) : text[m] # " "

\* The value of a text as an expression with optional spaces.
Value(text) ==
    IF NumbersAreWhole(text) THEN Meaning(Spaceless(text)) ELSE Meaningless

\* The text is an expression but for one parenthesis that is missing or one
\* that is too many.
Unbalanced(text) ==
    /\ ~Balanced(text)
    /\ \/ \E k \in 1..Len(text) :
              /\ text[k] \in {"(", ")"}
              /\ Value(SubSeq(text, 1, k - 1) \o SubSeq(text, k + 1, Len(text))).ok
       \/ \E k \in 0..Len(text), c \in {"(", ")"} :
              Value(SubSeq(text, 1, k) \o <<c>> \o SubSeq(text, k + 1, Len(text))).ok

\* C28 (as claimed): do_math returns the value of an expression of
\* non-negative integers of one digit or more, '+', '*', spaces and nested
\* parentheses, parentheses first, then multiplication, then addition, and
\* returns None when the parentheses of the expression are unbalanced.
C28_DoMathEvaluates ==
    answer # NotCalled =>
        /\ Value(asked).ok => answer = Number(Value(asked).n)
        /\ Unbalanced(asked) => answer = NoValue

====
